---- MODULE Spec2Model ----
(***************************************************************************)
(* Model of the hypothesis-map to Excalidraw converter                     *)
(* (src/excalidraw_converter.py, src/model.py).                            *)
(*                                                                         *)
(* Strings are sequences of one-character strings, so that split, join and *)
(* len are computed as Python computes them.  Coordinates are kept in      *)
(* eighths of a unit: every value the converter computes is a multiple of  *)
(* 1/8 (font size 11 * 1.25 / 2), so the float arithmetic is exact.        *)
(***************************************************************************)
EXTENDS Integers, Sequences, FiniteSets, TLC

(***************************************************************************)
(* State of one call of wrap_text (the w_ variables) and of one call of    *)
(* convert_to_excalidraw; rng is the process-wide random generator.        *)
(***************************************************************************)
VARIABLES w_text, w_max, w_lines, w_i, wrapped_lines, w_pc, w_result

VARIABLES map, pc, elements, positions, card_elements, task_idx, arrow_idx,
          arrows, rng, document, run, prev_document

wvars == <<w_text, w_max, w_lines, w_i, wrapped_lines, w_pc, w_result>>

cvars == <<map, pc, elements, positions, card_elements, task_idx, arrow_idx,
           arrows, rng, document, run, prev_document>>

vars == <<wvars, cvars>>

(***************************************************************************)
(* Bounds of the text wrapper inputs.                                      *)
(***************************************************************************)
MaxTextLen == 5
MaxWidth == 3

Chars == {"a", "b", " ", "\n"}

SeqsUpTo(S, n) == UNION {[1..k -> S] : k \in 0..n}

(***************************************************************************)
(* str.split(sep), str.join, str.count                                     *)
(***************************************************************************)
RECURSIVE FirstIndex(_, _, _)
FirstIndex(s, c, i) ==
    IF i > Len(s) THEN 0
    ELSE IF s[i] = c THEN i
    ELSE FirstIndex(s, c, i + 1)

RECURSIVE Split(_, _)
Split(s, sep) ==
    LET k == FirstIndex(s, sep, 1)
    IN  IF k = 0 THEN <<s>>
        ELSE <<SubSeq(s, 1, k - 1)>> \o Split(SubSeq(s, k + 1, Len(s)), sep)

RECURSIVE Join(_, _)
Join(parts, sep) ==
    IF Len(parts) = 0 THEN <<>>
    ELSE IF Len(parts) = 1 THEN parts[1]
    ELSE parts[1] \o <<sep>> \o Join(Tail(parts), sep)

RECURSIVE Count(_, _)
Count(s, c) ==
    IF Len(s) = 0 THEN 0
    ELSE (IF Head(s) = c THEN 1 ELSE 0) + Count(Tail(s), c)

(***************************************************************************)
(* wrap_text: the inner loop over the words of one over-long line.         *)
(* acc is wrapped_lines as extended by this line, cur is current_line.     *)
(***************************************************************************)
RECURSIVE WrapWords(_, _, _, _)
WrapWords(words, cur, acc, max_chars_per_line) ==
    IF Len(words) = 0
    THEN IF Len(cur) > 0 THEN Append(acc, cur) ELSE acc
    ELSE LET word == Head(words)
         IN  IF Len(cur) = 0
             THEN WrapWords(Tail(words), word, acc, max_chars_per_line)
             ELSE IF Len(cur) + 1 + Len(word) <= max_chars_per_line
             THEN WrapWords(Tail(words), cur \o <<" ">> \o word, acc,
                            max_chars_per_line)
             ELSE WrapWords(Tail(words), word, Append(acc, cur),
                            max_chars_per_line)

(* WrapLine with the short-line test off by one. *)
WrapLineOffByOne(line, max_chars_per_line) ==
    IF Len(line) <= max_chars_per_line + 1
    THEN <<line>>
    ELSE WrapWords(Split(line, " "), <<>>, <<>>, max_chars_per_line)

(* The body of "for line in lines": the output lines one input line adds. *)
WrapLine(line, max_chars_per_line) ==
    IF Len(line) <= max_chars_per_line
    THEN <<line>>
    ELSE WrapWords(Split(line, " "), <<>>, <<>>, max_chars_per_line)

RECURSIVE WrapLines(_, _)
WrapLines(lines, max_chars_per_line) ==
    IF Len(lines) = 0 THEN <<>>
    ELSE WrapLine(Head(lines), max_chars_per_line)
         \o WrapLines(Tail(lines), max_chars_per_line)

wrap_text(text, max_chars_per_line) ==
    Join(WrapLines(Split(text, "\n"), max_chars_per_line), "\n")

(***************************************************************************)
(* The data model (src/model.py).  Entity identifiers are opaque strings   *)
(* that the converter only compares and uses as dictionary keys; they are  *)
(* modelled by the numbers 1..NumIds, and None by 0.                       *)
(***************************************************************************)
None == 0

Priority == {"high", "medium", "low", "none"}

(* COLORS, PRIORITY_COLORS, PRIORITY_STROKE *)
COLORS ==
    [goal |-> "#cadf58", subject |-> "#ffc831", hypothesis |-> "#ffef73",
     task |-> "#a6cdff", stroke |-> "#1e1e1e"]

PRIORITY_COLORS ==
    [high |-> "#FF7373", medium |-> "#FFC831", low |-> "#8FD14F",
     none |-> "#70736d"]

(* PRIORITY_STROKE with the two-tier table: MEDIUM tapers to 2 *)
PRIORITY_STROKE_TwoTiers ==
    [high |-> 4, medium |-> 2, low |-> 2, none |-> 2]

PRIORITY_STROKE ==
    [high |-> 4, medium |-> 3, low |-> 2, none |-> 2]

(***************************************************************************)
(* Layout parameters of convert_to_excalidraw, in units.                   *)
(***************************************************************************)
COL_GOAL == 100
COL_SUBJECT == 500
COL_HYPOTHESIS == 950
COL_TASK == 1400
TITLE_Y == 10
HEADER_Y == 60
ROW_START == 110
ROW_SPACING == 180
GOAL_W == 320
GOAL_H == 200
SUBJECT_W == 280
SUBJECT_H == 200
HYPOTHESIS_W == 380
HYPOTHESIS_H == 350
TASK_W == 240
TASK_H == 100
TASK_GAP == 15

(* a length in units as a number of eighths *)
U(n) == 8 * n

Abs(n) == IF n < 0 THEN 0 - n ELSE n

(***************************************************************************)
(* Element identifiers are pairs <<prefix, number>>: f"goal-{i}" is        *)
(* <<"goal", i>>, f"label-{generate_id()}" is <<"label", drawn value>>.    *)
(***************************************************************************)
NoId == <<"None", 0>>

(* generate_id / generate_seed: the k-th value drawn after generator      *)
(* state r.  The generator is the process-wide random stream: every draw   *)
(* advances it, so no two draws of a process return the same stream entry. *)
generate_id(r, k) == r + k
generate_seed(r, k) == r + k

(* every element record has the same fields; the ones its kind does not    *)
(* have hold NoId or the empty sequence                                    *)
Element(id, type, x, y, width, height, strokeColor, backgroundColor, strokeWidth, seed, versionNonce, boundElements, text, fontSize, containerId, startBinding, endBinding, points) ==
    [id |-> id, type |-> type, x |-> x, y |-> y, width |-> width,
     height |-> height, strokeColor |-> strokeColor,
     backgroundColor |-> backgroundColor, strokeWidth |-> strokeWidth,
     seed |-> seed, versionNonce |-> versionNonce,
     boundElements |-> boundElements, text |-> text, fontSize |-> fontSize,
     containerId |-> containerId, startBinding |-> startBinding,
     endBinding |-> endBinding, points |-> points]

(* create_card: <<rectangle, text>>; r is the generator state at the call *)
create_card(card_id, text_id, x, y, width, height, bg_color, text, font_size, r) ==
    LET lines == Count(text, "\n") + 1
        text_height == lines * font_size * 10
        rect == Element(card_id, "rectangle", x, y, width, height,
                        COLORS.stroke, bg_color, 2,
                        generate_seed(r, 0), generate_seed(r, 1),
                        <<[id |-> text_id, type |-> "text"]>>,
                        <<>>, 0, NoId, NoId, NoId, <<>>)
        text_elem == Element(text_id, "text", x + U(10),
                             y + (height - text_height) \div 2,
                             width - U(20), text_height,
                             COLORS.stroke, "transparent", 1,
                             generate_seed(r, 2), generate_seed(r, 3),
                             <<>>, text, font_size, card_id, NoId, NoId, <<>>)
    IN  <<rect, text_elem>>

(* create_arrow *)
create_arrow(arrow_id, start_id, end_id, start_x, start_y, end_x, end_y, color, stroke_width, r) ==
    Element(arrow_id, "arrow", start_x, start_y,
            Abs(end_x - start_x), Abs(end_y - start_y),
            color, "transparent", stroke_width,
            generate_seed(r, 0), generate_seed(r, 1),
            <<>>, <<>>, 0, NoId, start_id, end_id,
            <<<<0, 0>>, <<end_x - start_x, end_y - start_y>>>>)

(* create_label with a width that depends on the drawn identifier *)
create_label_Jitter(text, x, y, width, r) ==
    Element(<<"label", generate_id(r, 0)>>, "text", x, y,
            width + (generate_id(r, 0) % 2), U(30),
            "#868e96", "transparent", 1,
            generate_seed(r, 1), generate_seed(r, 2),
            <<>>, text, 18, NoId, NoId, NoId, <<>>)

(* create_label *)
create_label(text, x, y, width, r) ==
    Element(<<"label", generate_id(r, 0)>>, "text", x, y, width, U(30),
            "#868e96", "transparent", 1,
            generate_seed(r, 1), generate_seed(r, 2),
            <<>>, text, 18, NoId, NoId, NoId, <<>>)

(***************************************************************************)
(* Card texts.  The Cyrillic literals of the source are transliterated;    *)
(* the priority icons are the letters R, Y and G.  Maps are drawn with     *)
(* empty metrics and pains/desires lists, so a goal or subject text is its *)
(* header and its description.                                             *)
(***************************************************************************)
IsSpace(c) == c \in {" ", "\n"}

RECURSIVE LStrip(_)
LStrip(s) ==
    IF Len(s) > 0 /\ IsSpace(Head(s)) THEN LStrip(Tail(s)) ELSE s

RECURSIVE RStrip(_)
RStrip(s) ==
    IF Len(s) > 0 /\ IsSpace(s[Len(s)])
    THEN RStrip(SubSeq(s, 1, Len(s) - 1)) ELSE s

(* str.strip() *)
Strip(s) == LStrip(RStrip(s))

Digits == <<"0", "1", "2", "3", "4", "5", "6", "7", "8", "9">>

(* str(n) for n >= 0 *)
RECURSIVE IntStr(_)
IntStr(n) ==
    IF n < 10 THEN <<Digits[n + 1]>>
    ELSE IntStr(n \div 10) \o <<Digits[(n % 10) + 1]>>

GoalText(goal) == Strip(<<"T", "S", "E", "L">> \o <<"\n">> \o goal.description \o <<"\n">>)

SubjectText(subject) ==
    Strip(<<"S", "U", "B", "Y", "E", "K", "T">> \o <<"\n">> \o subject.description \o <<"\n">>)

(* priority_label: {HIGH, MEDIUM, LOW}.get(hyp.priority, "") *)
priority_label(priority) ==
    IF priority = "high" THEN <<"R", " ", "V", "y", "s", "o", "k", "i", "j">>
    ELSE IF priority = "medium" THEN <<"Y", " ", "S", "r", "e", "d", "n", "i", "j">>
    ELSE IF priority = "low" THEN <<"G", " ", "N", "i", "z", "k", "i", "j">>
    ELSE <<>>

(* i is the 0-based index of the hypothesis *)
HypothesisText(hyp, i) ==
    LET head == <<"G", "I", "P", "O", "T", "E", "Z", "A", " ">> \o IntStr(i + 1)
        label == priority_label(hyp.priority)
        text == IF Len(label) > 0
                THEN head \o <<"\n">> \o label \o <<" ", "p", "r", "i", "o", "r", "i", "t", "e", "t">>
                ELSE head
    IN  Strip(text
              \o <<"\n", "\n", "E", "S", "L", "I", " ">> \o wrap_text(hyp.if_part, 40)
              \o <<",", "\n", "\n", "T", "O", " ">> \o wrap_text(hyp.then_part, 40)
              \o <<",", "\n", "\n", "P", "O", "T", "O", "M", "U", " ", "Q", "T", "O", " ">> \o wrap_text(hyp.because_part, 40)
              \o <<",", "\n", "\n", "T", "O", "G", "D", "A", " ">> \o wrap_text(hyp.then_metric, 40))

TaskText(task) == wrap_text(task.description, 25)

(***************************************************************************)
(* The local state of one conversion, as a record:                         *)
(*   elements       the elements list                                      *)
(*   positions      entity id -> <<x, y, width, height, card_id>>          *)
(*   card_elements  card id -> index in elements of the rectangle (the     *)
(*                  dictionary holds the very object that is in elements)  *)
(*   task_idx, arrow_idx, arrows, rng                                      *)
(***************************************************************************)
Put(f, k, v) == [x \in (DOMAIN f) \cup {k} |-> IF x = k THEN v ELSE f[x]]

StartCtx(r) ==
    [elements |-> <<>>, positions |-> <<>>, card_elements |-> <<>>,
     task_idx |-> 0, arrow_idx |-> 0, arrows |-> <<>>, rng |-> r]

(* the title element and the four column labels *)
Headers(title, c) ==
    LET r == c.rng
        title_elem ==
            Element(<<"title", generate_id(r, 0)>>, "text",
                    U(COL_GOAL), U(TITLE_Y),
                    U(COL_TASK + TASK_W - COL_GOAL), U(36),
                    "#1e1e1e", "transparent", 1,
                    generate_seed(r, 1), generate_seed(r, 2),
                    <<>>, title, 28, NoId, NoId, NoId, <<>>)
    IN  [c EXCEPT
           !.elements = @ \o <<
               title_elem,
               create_label(<<"T", "S", "E", "L">>, U(COL_GOAL), U(HEADER_Y), U(GOAL_W), r + 3),
               create_label(<<"S", "U", "B", "Y", "E", "K", "T", "Y">>, U(COL_SUBJECT), U(HEADER_Y),
                            U(SUBJECT_W), r + 6),
               create_label(<<"G", "I", "P", "O", "T", "E", "Z", "Y">>, U(COL_HYPOTHESIS), U(HEADER_Y),
                            U(HYPOTHESIS_W), r + 9),
               create_label(<<"Z", "A", "D", "A", "Q", "I">>, U(COL_TASK), U(HEADER_Y), U(TASK_W),
                            r + 12)>>,
           !.rng = r + 15]

(* the tail of every card loop: create_card, elements.extend,              *)
(* card_elements[card_id] = rect, positions[key] = (...)                   *)
PlaceCard(c, key, card_id, text_id, x, y, width, height, bg_color, text, font_size) ==
    LET card == create_card(card_id, text_id, x, y, width, height, bg_color,
                            text, font_size, c.rng)
    IN  [c EXCEPT
           !.elements = @ \o card,
           !.card_elements = Put(@, card_id, Len(c.elements) + 1),
           !.positions = Put(@, key, <<x, y, width, height, card_id>>),
           !.rng = @ + 4]

(* for i, goal in enumerate(map.goals); i is 0-based *)
RECURSIVE GoalsLoop(_, _, _)
GoalsLoop(m, i, c) ==
    IF i >= Len(m.goals) THEN c
    ELSE LET goal == m.goals[i + 1]
             y == U(ROW_START) + i * U(GOAL_H + ROW_SPACING)
         IN  GoalsLoop(m, i + 1,
                 PlaceCard(c, goal.id, <<"goal", i>>, <<"goal-text", i>>,
                           U(COL_GOAL), y, U(GOAL_W), U(GOAL_H),
                           COLORS.goal, GoalText(goal), 12))

(* for i, subject in enumerate(map.subjects) *)
RECURSIVE SubjectsLoop(_, _, _)
SubjectsLoop(m, i, c) ==
    IF i >= Len(m.subjects) THEN c
    ELSE LET subject == m.subjects[i + 1]
             y == U(ROW_START) + i * U(SUBJECT_H + ROW_SPACING)
         IN  SubjectsLoop(m, i + 1,
                 PlaceCard(c, subject.id, <<"subject", i>>,
                           <<"subject-text", i>>,
                           U(COL_SUBJECT), y, U(SUBJECT_W), U(SUBJECT_H),
                           COLORS.subject, SubjectText(subject), 11))

(* for i, hyp in enumerate(map.hypotheses) *)
RECURSIVE HypothesesLoop(_, _, _)
HypothesesLoop(m, i, c) ==
    IF i >= Len(m.hypotheses) THEN c
    ELSE LET hyp == m.hypotheses[i + 1]
             y == U(ROW_START) + i * U(HYPOTHESIS_H + ROW_SPACING)
         IN  HypothesesLoop(m, i + 1,
                 PlaceCard(c, hyp.id, <<"hypothesis", i>>,
                           <<"hypothesis-text", i>>,
                           U(COL_HYPOTHESIS), y, U(HYPOTHESIS_W),
                           U(HYPOTHESIS_H), COLORS.hypothesis,
                           HypothesisText(hyp, i), 11))

(***************************************************************************)
(* Tasks: grouped by hypothesis_id, then placed hypothesis by hypothesis.  *)
(***************************************************************************)
(* tasks_by_hypothesis with a fallback bucket: a task whose hypothesis_id  *)
(* names no hypothesis is filed under the first hypothesis                 *)
tasks_by_hypothesis_Fallback(m) ==
    LET known == {m.hypotheses[k].id : k \in 1..Len(m.hypotheses)}
        bucket(t) == IF t.hypothesis_id \in known \/ Len(m.hypotheses) = 0
                     THEN t.hypothesis_id ELSE m.hypotheses[1].id
    IN  [hid \in {bucket(m.tasks[k]) : k \in 1..Len(m.tasks)} |->
            SelectSeq(m.tasks, LAMBDA t : bucket(t) = hid)]

(* tasks_by_hypothesis: hypothesis_id -> the tasks carrying it, in input   *)
(* order                                                                   *)
tasks_by_hypothesis(m) ==
    [hid \in {m.tasks[k].hypothesis_id : k \in 1..Len(m.tasks)} |->
        SelectSeq(m.tasks, LAMBDA t : t.hypothesis_id = hid)]

(* for j, task in enumerate(hyp_tasks) *)
RECURSIVE HypTasksLoop(_, _, _, _)
HypTasksLoop(hyp_tasks, j, task_start_y, c) ==
    IF j >= Len(hyp_tasks) THEN c
    ELSE LET task == hyp_tasks[j + 1]
             task_y == task_start_y + j * U(TASK_H + TASK_GAP)
             placed == PlaceCard(c, task.id, <<"task", c.task_idx>>,
                                 <<"task-text", c.task_idx>>,
                                 U(COL_TASK), task_y, U(TASK_W), U(TASK_H),
                                 COLORS.task, TaskText(task), 12)
         IN  HypTasksLoop(hyp_tasks, j + 1, task_start_y,
                          [placed EXCEPT !.task_idx = @ + 1])

(* task_start_y = hyp_y + (hyp_h - total_tasks_h) / 2 *)
TaskStartY(hyp_pos, n) ==
    LET hyp_y == hyp_pos[2]
        hyp_h == hyp_pos[4]
        total_tasks_h == n * U(TASK_H) + (n - 1) * U(TASK_GAP)
    IN  hyp_y + (hyp_h - total_tasks_h) \div 2

(* for hyp in map.hypotheses; k is 0-based *)
RECURSIVE TasksLoop(_, _, _)
TasksLoop(m, k, c) ==
    IF k >= Len(m.hypotheses) THEN c
    ELSE LET hyp == m.hypotheses[k + 1]
             groups == tasks_by_hypothesis(m)
             hyp_tasks == IF hyp.id \in DOMAIN groups
                          THEN groups[hyp.id] ELSE <<>>
         IN  IF Len(hyp_tasks) > 0 /\ hyp.id \in DOMAIN c.positions
             THEN TasksLoop(m, k + 1,
                      HypTasksLoop(hyp_tasks, 0,
                          TaskStartY(c.positions[hyp.id], Len(hyp_tasks)),
                          c))
             ELSE TasksLoop(m, k + 1, c)

(***************************************************************************)
(* Arrows.                                                                 *)
(***************************************************************************)
(* add_arrow_binding that assigns the list instead of appending to it *)
add_arrow_binding_Overwrite(c, card_id, arrow_id) ==
    IF card_id \in DOMAIN c.card_elements
    THEN [c EXCEPT !.elements[c.card_elements[card_id]].boundElements =
                       <<[id |-> arrow_id, type |-> "arrow"]>>]
    ELSE c

(* add_arrow_binding *)
add_arrow_binding(c, card_id, arrow_id) ==
    IF card_id \in DOMAIN c.card_elements
    THEN [c EXCEPT !.elements[c.card_elements[card_id]].boundElements =
                       Append(@, [id |-> arrow_id, type |-> "arrow"])]
    ELSE c

(* the arrow body that registers the arrow on the start card only *)
AddArrow_StartOnly(c, s_pos, e_pos, color, stroke_width) ==
    LET arrow_id == <<"arrow", c.arrow_idx>>
        arrow == create_arrow(arrow_id, s_pos[5], e_pos[5],
                              s_pos[1], s_pos[2] + s_pos[4] \div 2,
                              e_pos[1] + e_pos[3], e_pos[2] + e_pos[4] \div 2,
                              color, stroke_width, c.rng)
        c1 == [c EXCEPT !.arrows = Append(@, arrow), !.rng = @ + 2]
        c2 == add_arrow_binding(c1, s_pos[5], arrow_id)
    IN  [c2 EXCEPT !.arrow_idx = @ + 1]

(* the body shared by the three arrow loops: the arrow from the left-mid   *)
(* edge of s_pos to the right-mid edge of e_pos, and its two bindings      *)
AddArrow(c, s_pos, e_pos, color, stroke_width) ==
    LET arrow_id == <<"arrow", c.arrow_idx>>
        arrow == create_arrow(arrow_id, s_pos[5], e_pos[5],
                              s_pos[1], s_pos[2] + s_pos[4] \div 2,
                              e_pos[1] + e_pos[3], e_pos[2] + e_pos[4] \div 2,
                              color, stroke_width, c.rng)
        c1 == [c EXCEPT !.arrows = Append(@, arrow), !.rng = @ + 2]
        c2 == add_arrow_binding(c1, s_pos[5], arrow_id)
        c3 == add_arrow_binding(c2, e_pos[5], arrow_id)
    IN  [c3 EXCEPT !.arrow_idx = @ + 1]

(* for subject in map.subjects *)
RECURSIVE SubjectArrowsLoop(_, _, _)
SubjectArrowsLoop(m, i, c) ==
    IF i >= Len(m.subjects) THEN c
    ELSE LET subject == m.subjects[i + 1]
         IN  IF Len(m.goals) > 0 /\ subject.id \in DOMAIN c.positions
             THEN SubjectArrowsLoop(m, i + 1,
                      AddArrow(c, c.positions[subject.id],
                               c.positions[m.goals[1].id],
                               COLORS.subject, 3))
             ELSE SubjectArrowsLoop(m, i + 1, c)

(* the guard of the hypothesis arrow, accepting subject cards only *)
HypothesisHasArrow_SubjectsOnly(hyp, registry) ==
    /\ hyp.subject_id # None
    /\ hyp.subject_id \in DOMAIN registry
    /\ hyp.id \in DOMAIN registry
    /\ registry[hyp.subject_id][5][1] = "subject"

(* the guard of the hypothesis arrow *)
HypothesisHasArrow(hyp, registry) ==
    /\ hyp.subject_id # None
    /\ hyp.subject_id \in DOMAIN registry
    /\ hyp.id \in DOMAIN registry

(* for hyp in map.hypotheses *)
RECURSIVE HypothesisArrowsLoop(_, _, _)
HypothesisArrowsLoop(m, i, c) ==
    IF i >= Len(m.hypotheses) THEN c
    ELSE LET hyp == m.hypotheses[i + 1]
         IN  IF HypothesisHasArrow(hyp, c.positions)
             THEN HypothesisArrowsLoop(m, i + 1,
                      AddArrow(c, c.positions[hyp.id],
                               c.positions[hyp.subject_id],
                               PRIORITY_COLORS[hyp.priority],
                               PRIORITY_STROKE[hyp.priority]))
             ELSE HypothesisArrowsLoop(m, i + 1, c)

(* the guard of the task arrow *)
TaskHasArrow(task, registry) ==
    /\ task.hypothesis_id \in DOMAIN registry
    /\ task.id \in DOMAIN registry

(* for task in map.tasks *)
RECURSIVE TaskArrowsLoop(_, _, _)
TaskArrowsLoop(m, i, c) ==
    IF i >= Len(m.tasks) THEN c
    ELSE LET task == m.tasks[i + 1]
         IN  IF TaskHasArrow(task, c.positions)
             THEN TaskArrowsLoop(m, i + 1,
                      AddArrow(c, c.positions[task.id],
                               c.positions[task.hypothesis_id],
                               "#70736d", 2))
             ELSE TaskArrowsLoop(m, i + 1, c)

(* elements.extend(arrows) and the envelope that is serialised *)
Envelope(c) ==
    [type |-> "excalidraw", version |-> 2,
     source |-> "https://excalidraw.com",
     elements |-> c.elements \o c.arrows]

(* the whole of convert_to_excalidraw from generator state r *)
Convert(m, title, r) ==
    Envelope(
      TaskArrowsLoop(m, 0,
        HypothesisArrowsLoop(m, 0,
          SubjectArrowsLoop(m, 0,
            TasksLoop(m, 0,
              HypothesesLoop(m, 0,
                SubjectsLoop(m, 0,
                  GoalsLoop(m, 0,
                    Headers(title, StartCtx(r))))))))))

(***************************************************************************)
(* Input maps.  The converter only compares identifiers and uses them as   *)
(* dictionary keys, so maps are drawn up to renaming: reading the          *)
(* identifiers of a map in order (goals, subjects, hypotheses with their   *)
(* subject reference, tasks with their hypothesis reference), each one is  *)
(* an identifier already read or the next unused number.  Identifiers may  *)
(* repeat within and across categories, and a reference may name any       *)
(* identifier, an unused one (dangling) or None.                           *)
(***************************************************************************)
NumIds == 4
MaxEntities == 3
MaxGoals == 2
MaxSubjects == 2
MaxHypotheses == 2
MaxTasks == 4

Min(a, b) == IF a < b THEN a ELSE b
Max(a, b) == IF a > b THEN a ELSE b

DefaultTitle == <<"K", "a", "r", "t", "a">>
GoalDescription == <<"g", "r", "o", "w">>
SubjectDescription == <<"u", "s", "e", "r">>
IfPart == <<"w", "e", " ", "a", "c", "t">>
ThenPart == <<"t", "h", "e", "y", " ", "d", "o">>
BecausePart == <<"w", "h", "y">>
ThenMetric == <<"u", "p">>
TaskDescription == <<"c", "h", "e", "c", "k", " ", "t", "h", "e", " ", "o", "n", "b", "o", "a", "r", "d", "i", "n", "g", " ", "f", "u", "n", "n", "e", "l">>

NewIds(mx) == 1..Min(mx + 1, NumIds)

Goal(id) == [id |-> id, description |-> GoalDescription]
Subject(id) == [id |-> id, description |-> SubjectDescription]
Hypothesis(id, subject_id, priority) ==
    [id |-> id, subject_id |-> subject_id, priority |-> priority,
     if_part |-> IfPart, then_part |-> ThenPart,
     because_part |-> BecausePart, then_metric |-> ThenMetric]
Task(id, hypothesis_id) ==
    [id |-> id, hypothesis_id |-> hypothesis_id,
     description |-> TaskDescription]

(* the sequences of at most n goals, each paired with the largest          *)
(* identifier in use after it                                              *)
RECURSIVE GoalSeqs(_, _)
GoalSeqs(n, mx) ==
    {<<<<>>, mx>>} \cup
    (IF n = 0 THEN {}
     ELSE UNION {{<<<<Goal(id)>> \o p[1], p[2]>> :
                     p \in GoalSeqs(n - 1, Max(mx, id))} : id \in NewIds(mx)})

RECURSIVE SubjectSeqs(_, _)
SubjectSeqs(n, mx) ==
    {<<<<>>, mx>>} \cup
    (IF n = 0 THEN {}
     ELSE UNION {{<<<<Subject(id)>> \o p[1], p[2]>> :
                     p \in SubjectSeqs(n - 1, Max(mx, id))} :
                 id \in NewIds(mx)})

RECURSIVE HypothesisSeqs(_, _)
HypothesisSeqs(n, mx) ==
    {<<<<>>, mx>>} \cup
    (IF n = 0 THEN {}
     ELSE UNION {UNION {UNION {
            {<<<<Hypothesis(id, ref, pr)>> \o p[1], p[2]>> :
                p \in HypothesisSeqs(n - 1, Max(Max(mx, id), ref))} :
            pr \in Priority} :
            ref \in {None} \cup NewIds(Max(mx, id))} :
            id \in NewIds(mx)})

RECURSIVE TaskSeqs(_, _)
TaskSeqs(n, mx) ==
    {<<<<>>, mx>>} \cup
    (IF n = 0 THEN {}
     ELSE UNION {UNION {
            {<<<<Task(id, ref)>> \o p[1], p[2]>> :
                p \in TaskSeqs(n - 1, Max(Max(mx, id), ref))} :
            ref \in {None} \cup NewIds(Max(mx, id))} :
            id \in NewIds(mx)})

WrapIdle ==
    /\ w_text = <<>>
    /\ w_max = 1
    /\ w_lines = <<>>
    /\ w_i = 0
    /\ wrapped_lines = <<>>
    /\ w_pc = "idle"
    /\ w_result = <<>>

NoDocument == [type |-> "none", version |-> 0, source |-> "", elements |-> <<>>]

(* the locals of convert_to_excalidraw before its first statement *)
Locals(c) ==
    /\ elements = c.elements
    /\ positions = c.positions
    /\ card_elements = c.card_elements
    /\ task_idx = c.task_idx
    /\ arrow_idx = c.arrow_idx
    /\ arrows = c.arrows

(* maps with arbitrary identifiers, of at most MaxEntities entities *)
FreeMap(m) ==
    \E g \in GoalSeqs(Min(MaxGoals, MaxEntities), 0) :
    \E s \in SubjectSeqs(Min(MaxSubjects, MaxEntities - Len(g[1])), g[2]) :
    \E h \in HypothesisSeqs(
               Min(MaxHypotheses, MaxEntities - Len(g[1]) - Len(s[1])),
               s[2]) :
    \E t \in TaskSeqs(
               Min(MaxTasks, MaxEntities - Len(g[1]) - Len(s[1]) - Len(h[1])),
               h[2]) :
       m = [goals |-> g[1], subjects |-> s[1], hypotheses |-> h[1],
            tasks |-> t[1]]

(* maps as the data model builds them: every entity has its own            *)
(* identifier, every hypothesis names a subject of the map (None when      *)
(* there is none) and every task names a hypothesis of the map             *)
WellFormedMap(m) ==
    \E nG \in 0..MaxGoals, nS \in 0..MaxSubjects, nH \in 0..MaxHypotheses :
    \E nT \in 0..(IF nH = 0 THEN 0 ELSE MaxTasks) :
    \E sref \in [1..nH -> IF nS = 0 THEN {None} ELSE (nG + 1)..(nG + nS)] :
    \E pr \in [1..nH -> Priority] :
    \E href \in [1..nT -> (nG + nS + 1)..(nG + nS + nH)] :
       m = [goals |-> [i \in 1..nG |-> Goal(i)],
            subjects |-> [i \in 1..nS |-> Subject(nG + i)],
            hypotheses |->
                [i \in 1..nH |-> Hypothesis(nG + nS + i, sref[i], pr[i])],
            tasks |-> [i \in 1..nT |-> Task(nG + nS + nH + i, href[i])]]

Init ==
    /\ \/ FreeMap(map)
       \/ WellFormedMap(map)
    /\ pc = "start"
    /\ rng = 0
    /\ Locals(StartCtx(0))
    /\ document = NoDocument
    /\ run = 1
    /\ prev_document = NoDocument
    /\ WrapIdle

(* the locals as a record, and the step that replaces them *)
Ctx ==
    [elements |-> elements, positions |-> positions,
     card_elements |-> card_elements, task_idx |-> task_idx,
     arrow_idx |-> arrow_idx, arrows |-> arrows, rng |-> rng]

Step(from, to, c) ==
    /\ pc = from
    /\ pc' = to
    /\ elements' = c.elements
    /\ positions' = c.positions
    /\ card_elements' = c.card_elements
    /\ task_idx' = c.task_idx
    /\ arrow_idx' = c.arrow_idx
    /\ arrows' = c.arrows
    /\ rng' = c.rng
    /\ UNCHANGED <<map, document, run, prev_document, wvars>>

EmitHeaders == Step("start", "goals", Headers(DefaultTitle, Ctx))
LayoutGoals == Step("goals", "subjects", GoalsLoop(map, 0, Ctx))
LayoutSubjects == Step("subjects", "hypotheses", SubjectsLoop(map, 0, Ctx))
LayoutHypotheses == Step("hypotheses", "tasks", HypothesesLoop(map, 0, Ctx))
LayoutTasks == Step("tasks", "subject_arrows", TasksLoop(map, 0, Ctx))
BindSubjects ==
    Step("subject_arrows", "hypothesis_arrows", SubjectArrowsLoop(map, 0, Ctx))
BindHypotheses ==
    Step("hypothesis_arrows", "task_arrows", HypothesisArrowsLoop(map, 0, Ctx))
BindTasks == Step("task_arrows", "assemble", TaskArrowsLoop(map, 0, Ctx))

(* elements.extend(arrows); return json.dumps(excalidraw_data) *)
Assemble ==
    /\ pc = "assemble"
    /\ pc' = "done"
    /\ elements' = elements \o arrows
    /\ document' = Envelope(Ctx)
    /\ UNCHANGED <<map, positions, card_elements, task_idx, arrow_idx,
                   arrows, rng, run, prev_document, wvars>>

(* the caller converts the same map once more in the same process *)
CallAgain ==
    /\ pc = "done"
    /\ run = 1
    /\ run' = 2
    /\ prev_document' = document
    /\ document' = NoDocument
    /\ pc' = "start"
    /\ elements' = <<>>
    /\ positions' = <<>>
    /\ card_elements' = <<>>
    /\ task_idx' = 0
    /\ arrow_idx' = 0
    /\ arrows' = <<>>
    /\ UNCHANGED <<map, rng, wvars>>

Next ==
    \/ EmitHeaders
    \/ LayoutGoals
    \/ LayoutSubjects
    \/ LayoutHypotheses
    \/ LayoutTasks
    \/ BindSubjects
    \/ BindHypotheses
    \/ BindTasks
    \/ Assemble

Spec == Init /\ [][Next]_vars

NextTwice == Next \/ CallAgain

SpecTwice == Init /\ [][NextTwice]_vars

(***************************************************************************)
(* The text wrapper as a state machine: one call of wrap_text, one step    *)
(* per iteration of its outer loop.                                        *)
(***************************************************************************)
(* no conversion is running *)
ConvIdle ==
    /\ map = [goals |-> <<>>, subjects |-> <<>>, hypotheses |-> <<>>,
              tasks |-> <<>>]
    /\ pc = "idle"
    /\ rng = 0
    /\ Locals(StartCtx(0))
    /\ document = NoDocument
    /\ run = 1
    /\ prev_document = NoDocument

WrapInit ==
    /\ w_text \in SeqsUpTo(Chars, MaxTextLen)
    /\ w_max \in 1..MaxWidth
    /\ w_lines = <<>>
    /\ w_i = 0
    /\ wrapped_lines = <<>>
    /\ w_pc = "call"
    /\ w_result = <<>>
    /\ ConvIdle

(* lines = text.split('\n'); wrapped_lines = [] *)
WrapSplit ==
    /\ w_pc = "call"
    /\ w_lines' = Split(w_text, "\n")
    /\ w_i' = 1
    /\ wrapped_lines' = <<>>
    /\ w_pc' = "loop"
    /\ UNCHANGED <<w_text, w_max, w_result, cvars>>

(* one iteration of "for line in lines" *)
WrapStep ==
    /\ w_pc = "loop"
    /\ w_i <= Len(w_lines)
    /\ wrapped_lines' = wrapped_lines \o WrapLine(w_lines[w_i], w_max)
    /\ w_i' = w_i + 1
    /\ UNCHANGED <<w_text, w_max, w_lines, w_pc, w_result, cvars>>

(* return '\n'.join(wrapped_lines) *)
WrapReturn ==
    /\ w_pc = "loop"
    /\ w_i > Len(w_lines)
    /\ w_result' = Join(wrapped_lines, "\n")
    /\ w_pc' = "done"
    /\ UNCHANGED <<w_text, w_max, w_lines, w_i, wrapped_lines, cvars>>

WrapNext == WrapSplit \/ WrapStep \/ WrapReturn

SpecWrap == WrapInit /\ [][WrapNext]_vars

(***************************************************************************)
(* Properties of the text wrapper.                                         *)
(***************************************************************************)
NonEmpty(s) == Len(s) > 0

(* the words of one line: its maximal runs without spaces *)
LineWords(line) == SelectSeq(Split(line, " "), NonEmpty)

RECURSIVE GroupWords(_)
GroupWords(lines) ==
    IF Len(lines) = 0 THEN <<>>
    ELSE LineWords(Head(lines)) \o GroupWords(Tail(lines))

(* the words of a text: its maximal runs without spaces or newlines *)
TextWords(text) == GroupWords(Split(text, "\n"))

ResultLines == Split(w_result, "\n")

(* C3: no line of wrap_text(text, w), w >= 1, is longer than w unless the  *)
(* line is exactly one word of the input that is itself longer than w.     *)
C3_LinesFitWidth ==
    w_pc = "done" =>
        \A i \in 1..Len(ResultLines) :
            \/ Len(ResultLines[i]) <= w_max
            \/ \E k \in 1..Len(TextWords(w_text)) :
                   /\ TextWords(w_text)[k] = ResultLines[i]
                   /\ Len(TextWords(w_text)[k]) > w_max

(* a call that both wrapped a line and passed an over-long word through *)
C3_Witness ==
    /\ w_pc = "done"
    /\ Len(ResultLines) > Len(w_lines)
    /\ \E i \in 1..Len(ResultLines) : Len(ResultLines[i]) > w_max

(* outLines splits into one non-empty consecutive group per input line,   *)
(* each group holding the words of its input line in order                *)
RECURSIVE CanGroup(_, _)
CanGroup(inLines, outLines) ==
    IF Len(inLines) = 0 THEN Len(outLines) = 0
    ELSE \E k \in 1..Len(outLines) :
            /\ GroupWords(SubSeq(outLines, 1, k)) = LineWords(Head(inLines))
            /\ CanGroup(Tail(inLines), SubSeq(outLines, k + 1, Len(outLines)))

(* C4: wrap_text preserves the count and content of the hard line breaks:  *)
(* every newline-separated input line, empty and all-space lines included, *)
(* contributes at least one output line holding exactly its words.         *)
C4_HardBreaksPreserved ==
    w_pc = "done" => CanGroup(Split(w_text, "\n"), ResultLines)

(***************************************************************************)
(* Properties of the conversion.                                           *)
(***************************************************************************)
Done == pc = "done"

Doc == document.elements

Indices(seq) == 1..Len(seq)

(* the elements of the document that reference the rectangle with id rid   *)
Referrers(rid) ==
    {j \in Indices(Doc) :
        \/ Doc[j].type = "text" /\ Doc[j].containerId = rid
        \/ /\ Doc[j].type = "arrow"
           /\ (Doc[j].startBinding = rid \/ Doc[j].endBinding = rid)}

(* C1: in the returned document, the boundElements list of every rectangle *)
(* is as long as the number of text and arrow elements that reference it.  *)
C1_BoundListCountsReferrers ==
    Done =>
        \A i \in Indices(Doc) :
            Doc[i].type = "rectangle" =>
                Len(Doc[i].boundElements) = Cardinality(Referrers(Doc[i].id))

DocArrows == {j \in Indices(Doc) : Doc[j].type = "arrow"}

SubjectTerm == IF Len(map.goals) > 0 THEN Len(map.subjects) ELSE 0

(* the hypotheses whose subject reference resolves in the registry *)
ResolvedHypotheses ==
    {i \in Indices(map.hypotheses) :
        /\ map.hypotheses[i].subject_id # None
        /\ map.hypotheses[i].subject_id \in DOMAIN positions}

OwnedTask(task) ==
    \E k \in Indices(map.hypotheses) :
        map.hypotheses[k].id = task.hypothesis_id

CardIds ==
    {map.goals[i].id : i \in Indices(map.goals)}
    \cup {map.subjects[i].id : i \in Indices(map.subjects)}
    \cup {map.hypotheses[i].id : i \in Indices(map.hypotheses)}
    \cup {map.tasks[i].id : i \in {k \in Indices(map.tasks) :
                                      OwnedTask(map.tasks[k])}}

ElementById(id) == CHOOSE e \in {elements[j] : j \in Indices(elements)} : e.id = id

HasElement(id) == \E j \in Indices(elements) : elements[j].id = id

(* the tasks a hypothesis owns, in input order *)
TasksOf(hyp) == SelectSeq(map.tasks, LAMBDA t : t.hypothesis_id = hyp.id)

(* the number of task cards created for the hypotheses before the k-th *)
RECURSIVE TaskCardsBefore(_)
TaskCardsBefore(k) ==
    IF k <= 1 THEN 0
    ELSE TaskCardsBefore(k - 1) + Len(TasksOf(map.hypotheses[k - 1]))

TasksPlaced ==
    pc \in {"subject_arrows", "hypothesis_arrows", "task_arrows", "assemble",
            "done"}

(* C6: the n >= 1 task cards of a hypothesis are stacked in input order    *)
(* with a 15-unit gap, span n*100 + (n-1)*15 units, and the block is       *)
(* centred on the hypothesis card: the margin above the first task card    *)
(* equals the margin below the last one within 0.5 unit.                   *)
C6_TaskBlockCentred ==
    TasksPlaced =>
        \A k \in Indices(map.hypotheses) :
            LET hyp_tasks == TasksOf(map.hypotheses[k])
                n == Len(hyp_tasks)
                first == TaskCardsBefore(k)
                hcard == ElementById(<<"hypothesis", k - 1>>)
                tcard(j) == ElementById(<<"task", first + j>>)
                above == tcard(0).y - hcard.y
                below == (hcard.y + hcard.height)
                         - (tcard(n - 1).y + tcard(n - 1).height)
            IN  n >= 1 =>
                  /\ \A j \in 0..(n - 1) :
                        /\ HasElement(<<"task", first + j>>)
                        /\ tcard(j).height = U(100)
                        /\ ElementById(<<"task-text", first + j>>).text
                             = wrap_text(hyp_tasks[j + 1].description, 25)
                  /\ \A j \in 0..(n - 2) :
                        tcard(j + 1).y = tcard(j).y + tcard(j).height + U(15)
                  /\ (tcard(n - 1).y + tcard(n - 1).height) - tcard(0).y
                        = n * U(100) + (n - 1) * U(15)
                  /\ Abs(above - below) <= 4

(* the arrows of the document that start at the card with id cid *)
ArrowsFrom(cid) ==
    {j \in Indices(Doc) : Doc[j].type = "arrow" /\ Doc[j].startBinding = cid}

(* C7: every subject gets exactly one outgoing connector, bound at its end *)
(* to the card of the first goal of the goal list; with an empty goal list *)
(* no subject gets an outgoing connector.                                  *)
C7_SubjectsToFirstGoal ==
    Done =>
        \A i \in Indices(map.subjects) :
            IF Len(map.goals) = 0
            THEN ArrowsFrom(<<"subject", i - 1>>) = {}
            ELSE /\ Cardinality(ArrowsFrom(<<"subject", i - 1>>)) = 1
                 /\ \A j \in ArrowsFrom(<<"subject", i - 1>>) :
                        Doc[j].endBinding = <<"goal", 0>>

(* C9: a map with a task whose hypothesis_id is None makes the conversion  *)
(* fail before any layout step runs, and no document is returned.          *)
C9_NoneTaskFailsFast ==
    (\E i \in Indices(map.tasks) : map.tasks[i].hypothesis_id = None)
        => pc \in {"start", "idle"}

(* a document without the values drawn from generate_id and generate_seed *)
Shape(d) ==
    [i \in Indices(d.elements) |->
        LET e == d.elements[i]
        IN  [e EXCEPT !.seed = 0, !.versionNonce = 0,
                      !.id = IF e.id[1] \in {"title", "label"}
                             THEN <<e.id[1], 0>> ELSE e.id]]

(* C5: two conversions of the same map and title return documents with the *)
(* same elements position by position (type, x, y, width, height, text,    *)
(* bindings and every other field), up to the title and label identifiers, *)
(* seed and versionNonce.                                                  *)
C5_SameShapeTwice ==
    (Done /\ run = 2) => Shape(document) = Shape(prev_document)

(* the second conversion returned, with other drawn values, and the        *)
(* document has arrows                                                     *)
C5_Witness ==
    /\ Done
    /\ run = 2
    /\ document # prev_document
    /\ DocArrows # {}

(* hypotheses and tasks whose reference is set and is not in the registry *)
DanglingHypotheses ==
    {i \in Indices(map.hypotheses) :
        /\ map.hypotheses[i].subject_id # None
        /\ map.hypotheses[i].subject_id \notin DOMAIN positions}

DanglingTasks ==
    {i \in Indices(map.tasks) :
        /\ map.tasks[i].hypothesis_id # None
        /\ map.tasks[i].hypothesis_id \notin DOMAIN positions}

WithoutSubjectRef(m, i) == [m EXCEPT !.hypotheses[i].subject_id = None]

WithoutTask(m, i) ==
    [m EXCEPT !.tasks = SubSeq(@, 1, i - 1) \o SubSeq(@, i + 1, Len(@))]

(* C8 as stated: a dangling reference only costs its own connector: the    *)
(* hypothesis or task still has its card, and the rest of the document is  *)
(* the one produced without the reference.                                 *)
C8_DanglingOnlyDropsConnector ==
    Done =>
        /\ \A i \in DanglingHypotheses :
              /\ \E j \in Indices(Doc) : Doc[j].id = <<"hypothesis", i - 1>>
              /\ Shape(document)
                   = Shape(Convert(WithoutSubjectRef(map, i), DefaultTitle, 0))
        /\ \A i \in DanglingTasks :
              /\ map.tasks[i].id \in DOMAIN positions
              /\ positions[map.tasks[i].id][5][1] = "task"

(* C8 as amended: a hypothesis whose subject_id is not in the registry     *)
(* keeps its card and the document is the one of the map with that         *)
(* subject_id unset; a task whose hypothesis_id is not in the registry     *)
(* gets neither connector nor card: the document is the one of the map     *)
(* without that task.                                                      *)
C8_DanglingOmitted ==
    Done =>
        /\ \A i \in DanglingHypotheses :
              /\ \E j \in Indices(Doc) : Doc[j].id = <<"hypothesis", i - 1>>
              /\ Shape(document)
                   = Shape(Convert(WithoutSubjectRef(map, i), DefaultTitle, 0))
        /\ \A i \in DanglingTasks :
              Shape(document)
                 = Shape(Convert(WithoutTask(map, i), DefaultTitle, 0))

(* a document with arrows of a map with both kinds of dangling reference *)
C8_Witness ==
    /\ Done
    /\ DanglingHypotheses # {}
    /\ DanglingTasks # {}
    /\ DocArrows # {}

(* the hypotheses that get an arrow, in map order; their arrows follow the *)
(* subject arrows in the arrows list                                       *)
HypothesesWithArrow ==
    SelectSeq(map.hypotheses, LAMBDA h : HypothesisHasArrow(h, positions))

HypothesisArrowsBuilt == pc \in {"task_arrows", "assemble", "done"}

SubjectArrowCount ==
    IF Len(map.goals) > 0 THEN Len(map.subjects) ELSE 0

PriorityColour(priority) ==
    CASE priority = "high" -> "#FF7373"
      [] priority = "medium" -> "#FFC831"
      [] priority = "low" -> "#8FD14F"
      [] priority = "none" -> "#70736d"

(* C10 as stated: the stroke width of a hypothesis arrow is 4 for HIGH and *)
(* 2 for MEDIUM, LOW and NONE; its colour is the priority colour, one      *)
(* distinct colour per level.                                              *)
C10_StrokeTwoTiers ==
    HypothesisArrowsBuilt =>
        \A k \in Indices(HypothesesWithArrow) :
            LET arrow == arrows[SubjectArrowCount + k]
                priority == HypothesesWithArrow[k].priority
            IN  /\ arrow.strokeWidth = (IF priority = "high" THEN 4 ELSE 2)
                /\ arrow.strokeColor = PriorityColour(priority)

(* C10 as amended: the stroke width takes three values, 4 for HIGH, 3 for  *)
(* MEDIUM and 2 for LOW and NONE; the colour is the priority colour, one   *)
(* distinct colour per level.                                              *)
C10_StrokeThreeTiers ==
    HypothesisArrowsBuilt =>
        \A k \in Indices(HypothesesWithArrow) :
            LET arrow == arrows[SubjectArrowCount + k]
                priority == HypothesesWithArrow[k].priority
            IN  /\ arrow.strokeWidth =
                     (CASE priority = "high" -> 4
                        [] priority = "medium" -> 3
                        [] priority \in {"low", "none"} -> 2)
                /\ arrow.strokeColor = PriorityColour(priority)
                /\ \A p, q \in Priority :
                      p # q => PriorityColour(p) # PriorityColour(q)

(* two hypothesis arrows of different priorities, one of them MEDIUM *)
C10_Witness ==
    /\ Done
    /\ Len(HypothesesWithArrow) = 2
    /\ HypothesesWithArrow[1].priority = "medium"
    /\ HypothesesWithArrow[2].priority = "high"

(***************************************************************************)
(* The order of the phases of one conversion.                              *)
(***************************************************************************)
LayoutPhase == pc \in {"start", "goals", "subjects", "hypotheses", "tasks"}

BindingPhase ==
    pc \in {"subject_arrows", "hypothesis_arrows", "task_arrows", "assemble"}

IsPrefix(s, t) ==
    /\ Len(s) <= Len(t)
    /\ \A j \in Indices(s) : s[j] = t[j]

(* no connector exists yet *)
NoConnector ==
    /\ arrows = <<>>
    /\ arrow_idx = 0
    /\ \A j \in Indices(elements) : elements[j].type # "arrow"

(* the card with identifier cid has been created *)
CardCreated(cid) ==
    \E j \in Indices(elements) :
        elements[j].type = "rectangle" /\ elements[j].id = cid

(* every goal, subject and hypothesis card and the card of every task of   *)
(* a hypothesis of the map is created, and its entity identifier is a key  *)
(* of the position registry                                                *)
AllCardsRegistered ==
    /\ \A i \in Indices(map.goals) :
          CardCreated(<<"goal", i - 1>>) /\ map.goals[i].id \in DOMAIN positions
    /\ \A i \in Indices(map.subjects) :
          /\ CardCreated(<<"subject", i - 1>>)
          /\ map.subjects[i].id \in DOMAIN positions
    /\ \A i \in Indices(map.hypotheses) :
          /\ CardCreated(<<"hypothesis", i - 1>>)
          /\ map.hypotheses[i].id \in DOMAIN positions
    /\ \A i \in Indices(map.tasks) :
          OwnedTask(map.tasks[i]) => map.tasks[i].id \in DOMAIN positions
    /\ \A n \in 0..(TaskCardsBefore(Len(map.hypotheses) + 1) - 1) :
          CardCreated(<<"task", n>>)
    /\ task_idx = TaskCardsBefore(Len(map.hypotheses) + 1)

(* element f is element e, but for arrow entries appended to the           *)
(* boundElements list of a rectangle                                       *)
OnlyArrowEntriesAppended(e, f) ==
    /\ [f EXCEPT !.boundElements = e.boundElements] = e
    /\ IsPrefix(e.boundElements, f.boundElements)
    /\ \A j \in (Len(e.boundElements) + 1)..Len(f.boundElements) :
          f.boundElements[j].type = "arrow"
    /\ e.type # "rectangle" => f = e

(* C11: within one conversion no connector exists while the cards are laid *)
(* out; when the first connector is built every goal, subject, hypothesis  *)
(* and task card is created and registered; and every step from then until *)
(* the document is returned leaves the position registry and the set of    *)
(* container cards unchanged, only appending arrow entries to the          *)
(* boundElements lists of cards and appending arrows.                      *)
C11_LayoutBeforeBinding ==
    [][/\ LayoutPhase => NoConnector
       /\ BindingPhase =>
            /\ AllCardsRegistered
            /\ positions' = positions
            /\ card_elements' = card_elements
            /\ Len(elements') >= Len(elements)
            /\ \A j \in Indices(elements) :
                  OnlyArrowEntriesAppended(elements[j], elements'[j])
            /\ \A j \in (Len(elements) + 1)..Len(elements') :
                  elements'[j].type = "arrow"
            /\ IsPrefix(arrows, arrows')
            /\ task_idx' = task_idx]_vars

(* a returned document with two connectors or more, one card holding two   *)
(* arrow entries, and a task card among the cards                          *)
C11_Witness ==
    /\ Done
    /\ Len(arrows) >= 2
    /\ CardCreated(<<"task", 0>>)
    /\ \E j \in Indices(Doc) :
          Doc[j].type = "rectangle" /\ Len(Doc[j].boundElements) >= 3

(***************************************************************************)
(* The arrows of the returned document.                                    *)
(***************************************************************************)
(* the arrows of the document, in output order *)
ArrowSeq == SelectSeq(Doc, LAMBDA e : e.type = "arrow")

(* the document holds a rectangle with identifier rid whose boundElements  *)
(* list names the arrow aid                                                *)
BoundRectangle(rid, aid) ==
    \E j \in Indices(Doc) :
        /\ Doc[j].type = "rectangle"
        /\ Doc[j].id = rid
        /\ \E b \in Indices(Doc[j].boundElements) :
              Doc[j].boundElements[b] = [id |-> aid, type |-> "arrow"]

(* C12: in the returned document of any map, both bindings of every arrow  *)
(* name a rectangle of the document, that rectangle lists the arrow in its *)
(* boundElements, and the arrows are arrow-0 .. arrow-(k-1) in output      *)
(* order.                                                                  *)
C12_ArrowsWellBound ==
    Done =>
        /\ \A k \in Indices(ArrowSeq) :
              /\ ArrowSeq[k].id = <<"arrow", k - 1>>
              /\ BoundRectangle(ArrowSeq[k].startBinding, ArrowSeq[k].id)
              /\ BoundRectangle(ArrowSeq[k].endBinding, ArrowSeq[k].id)
        /\ \A i, j \in Indices(Doc) :
              (Doc[i].type = "rectangle" /\ Doc[j].type = "rectangle"
                 /\ Doc[i].id = Doc[j].id) => i = j

(* a returned document of a map with two subjects of the same identifier,  *)
(* holding two arrows or more, one of them between two different cards     *)
C12_Witness ==
    /\ Done
    /\ Len(ArrowSeq) >= 2
    /\ \E k \in Indices(ArrowSeq) :
          ArrowSeq[k].startBinding # ArrowSeq[k].endBinding
    /\ \E i, j \in Indices(map.subjects) :
          i # j /\ map.subjects[i].id = map.subjects[j].id

====
